---- MODULE Spec2Model ----
(***************************************************************************)
(* LogExtractor (extract_logs.js): extraction of the lines of one date     *)
(* from a date-sorted log file by a byte-offset binary search followed by  *)
(* a sequential scan.                                                      *)
(*                                                                         *)
(* Strings are sequences of UTF-16 code units (all characters used are     *)
(* ASCII, so a byte offset is a character offset).  File positions are     *)
(* 0-based as in the source: the character at position p of f is f[p+1].   *)
(***************************************************************************)
EXTENDS Integers, Sequences, FiniteSets, TLC

(***************************************************************************)
(* Bounds of the model.                                                    *)
(***************************************************************************)
\* most lines of a generated log file (one extraction at a time)
MaxLines == 3
\* most lines of a generated log file (two concurrent extractions)
MaxLinesConc == 2

(***************************************************************************)
(* Characters and strings.                                                 *)
(***************************************************************************)
\* '\n', the line terminator searched for by getDateAtPosition and readline
NL == 10
\* substring(0, 10): the width of the date prefix
DateLen == 10

\* '0'..'9', what \d matches
Digits == 48..57
\* '-'
Hyphen == 45

Min(a, b) == IF a < b THEN a ELSE b

\* String.prototype.substring(0, n)
Substring0(s, n) == SubSeq(s, 1, Min(n, Len(s)))

\* a < b on JavaScript strings: lexicographic on code units, a proper prefix
\* is smaller
StrLess(a, b) ==
    \E k \in 1..Len(b) :
        /\ \A i \in 1..(k - 1) : i <= Len(a) /\ a[i] = b[i]
        /\ (k > Len(a) \/ (k <= Len(a) /\ a[k] < b[k]))

\* "2024-12-0d"
Date(d) == <<50, 48, 50, 52, 45, 49, 50, 45, 48, 48 + d>>

\* the dates that occur in generated log files
Days == {1, 2, 3}

\* free-form line contents: "", " A", and one that quotes a date,
\* " 2024-12-03x"
Contents == { <<>>, <<32, 65>>, <<32>> \o Date(3) \o <<120>> }

\* "2024-13-40", "20241201" and ""
OddTargets == { <<50, 48, 50, 52, 45, 49, 51, 45, 52, 48>>,
                <<50, 48, 50, 52, 49, 50, 48, 49>>,
                <<>> }

\* the target dates given to extractLogs
Targets == { Date(d) : d \in Days } \cup OddTargets

(***************************************************************************)
(* Log files.                                                              *)
(***************************************************************************)
RECURSIVE Concat(_)
Concat(ss) == IF ss = <<>> THEN <<>> ELSE Head(ss) \o Concat(Tail(ss))

\* the line specifications (day, content) of a sorted file of n lines
SortedLineSpecs(n) ==
    { ls \in [1..n -> Days \X Contents] :
        \A i \in 1..(n - 1) : ls[i][1] <= ls[i + 1][1] }

FileOf(ls) == Concat([i \in 1..Len(ls) |-> Date(ls[i][1]) \o ls[i][2] \o <<NL>>])

\* '2024-12-01 A\n2024-12-02 B\n2024-12-02 C\n2024-12-03 D\n'
ScenarioFile ==
    Date(1) \o <<32, 65, NL>> \o Date(2) \o <<32, 66, NL>>
            \o Date(2) \o <<32, 67, NL>> \o Date(3) \o <<32, 68, NL>>

\* newline-terminated sorted files of at most n lines
TerminatedFiles(n) ==
    UNION { { FileOf(ls) : ls \in SortedLineSpecs(k) } : k \in 0..n }

\* the same files with the final newline missing
UnterminatedFiles(n) ==
    { SubSeq(f, 1, Len(f) - 1) : f \in TerminatedFiles(n) \ {<<>>} }

LogFiles(n) == TerminatedFiles(n) \cup UnterminatedFiles(n) \cup {ScenarioFile}

\* '2024-12-01\n2024-12-02\n2024-12-02 2024-12-03x\n'
QuotingFile ==
    Date(1) \o <<NL>> \o Date(2) \o <<NL>>
            \o Date(2) \o <<32>> \o Date(3) \o <<120, NL>>

(***************************************************************************)
(* Pure parts of the source.                                               *)
(***************************************************************************)
\* a format check on the characters alone: /^[\d-]*$/
ValidDateFormatLoose(targetDate) ==
    \A i \in 1..Len(targetDate) : targetDate[i] \in Digits \cup {Hyphen}

\* /^\d{4}-\d{2}-\d{2}$/.test(targetDate)
ValidDateFormat(targetDate) ==
    /\ Len(targetDate) = 10
    /\ \A i \in {1, 2, 3, 4, 6, 7, 9, 10} : targetDate[i] \in Digits
    /\ \A i \in {5, 8} : targetDate[i] = Hyphen

\* one output file for every date: path.join(this.outputDir, 'output.txt')
OutputPathFixed(targetDate) == <<"output", <<>>, ".txt">>

\* path.join(this.outputDir, `output_${targetDate}.txt`)
OutputPath(targetDate) == <<"output_", targetDate, ".txt">>

\* data.indexOf('\n') for the data read from position to the end of the file:
\* the 0-based index of the first newline, -1 when there is none
NewlineIndex(f, position) ==
    IF \E i \in (position + 1)..Len(f) : f[i] = NL
    THEN (CHOOSE i \in (position + 1)..Len(f) :
              /\ f[i] = NL
              /\ \A j \in (position + 1)..(i - 1) : f[j] # NL) - (position + 1)
    ELSE -1

\* getDateAtPosition: the value the promise resolves with, once the data read
\* from position holds a newline: line = data.slice(0, newlineIndex),
\* date = line.substring(0, 10)
GetDateAtPosition(f, position) ==
    Substring0(SubSeq(f, position + 1, position + NewlineIndex(f, position)), DateLen)

\* getDateAtPosition resolves only from the 'data' handler that sees a newline;
\* there is no 'end' handler
ProbeResolves(f, position) == NewlineIndex(f, position) # -1

\* Math.floor(left + (right - left) / 2)
Mid(left, right) == left + ((right - left) \div 2)

\* the line readline yields from position pos (pos < Len(f)): up to the next
\* newline, or to the end of the file
ReadLine(f, pos) ==
    IF NewlineIndex(f, pos) = -1
    THEN SubSeq(f, pos + 1, Len(f))
    ELSE SubSeq(f, pos + 1, pos + NewlineIndex(f, pos))

\* line.substring(0, 11)
LineDateWide(line) == Substring0(line, DateLen + 1)

\* line.substring(0, 10)
LineDate(line) == Substring0(line, DateLen)

\* what a stream positioned at pos leaves of a file when it writes data
WriteAt(old, pos, data) ==
    SubSeq(old, 1, Min(pos, Len(old))) \o data
        \o SubSeq(old, pos + Len(data) + 1, Len(old))

(***************************************************************************)
(* State.                                                                  *)
(***************************************************************************)
VARIABLES
    logFile,          \* the content of the file at this.logFilePath
    fileSize,         \* this.fileSize of the LogExtractor instance
    outputDirExists,  \* whether this.outputDir exists
    outputs,          \* the files of the output directory: path -> content
    ex                \* the extractLogs calls in progress: call -> its locals

vars == <<logFile, fileSize, outputDirExists, outputs, ex>>

\* the locals of an extractLogs call that has not run yet
NewCall(targetDate) ==
    [ pc            |-> "start",
      targetDate    |-> targetDate,
      left          |-> 0,
      right         |-> 0,
      position      |-> 0,      \* the position of the probe last issued
      date          |-> <<>>,   \* what the probe last resolved gave
      datePosition  |-> -1,     \* the position of the probe that gave date
      startPosition |-> -1,
      candidate     |-> -1,     \* the last mid whose date equalled targetDate
      backtracks    |-> 0,      \* the probes issued by the backtrack loop
      scanPos       |-> 0,      \* where readline reads its next line
      line          |-> <<>>,
      bytesWritten  |-> 0,      \* the position of outputStream
      matchedLines  |-> 0,
      totalLines    |-> 0,
      error         |-> "",
      io            |-> {} ]    \* the kinds of file I/O the call has issued

\* return { totalLines: 0, matchedLines: 0, ... }
ReturnNotFound(e) == [e EXCEPT !.pc = "done", !.totalLines = 0, !.matchedLines = 0]

\* the end of binarySearch and what extractLogs does with its result
SearchReturns(e) ==
    IF e.startPosition = -1
    THEN ReturnNotFound(e)
    ELSE [e EXCEPT !.pc = "scan", !.scanPos = e.startPosition]

\* the head of the backtrack loop: while (startPosition > 0), with the probe
\* at startPosition - 1 issued when the loop is entered
BacktrackHead(e) ==
    IF e.startPosition # -1 /\ e.startPosition > 0
    THEN [e EXCEPT !.pc = "backtrack", !.position = e.startPosition - 1,
                   !.backtracks = @ + 1, !.io = @ \cup {"read"}]
    ELSE SearchReturns(e)

\* the head of the search loop: while (left <= right), with the probe at mid
\* issued when the loop is entered
SearchHead(e) ==
    IF e.left <= e.right
    THEN [e EXCEPT !.pc = "probe", !.position = Mid(e.left, e.right),
                   !.io = @ \cup {"read"}]
    ELSE BacktrackHead(e)

\* the three branches on the date read at mid
Compare(e, mid, date) ==
    IF date = e.targetDate
    THEN [e EXCEPT !.date = date, !.datePosition = mid,
                   !.startPosition = mid, !.candidate = mid, !.right = mid - 1]
    ELSE IF StrLess(date, e.targetDate)
    THEN [e EXCEPT !.date = date, !.datePosition = mid, !.left = mid + 1]
    ELSE [e EXCEPT !.date = date, !.datePosition = mid, !.right = mid - 1]

\* the backtrack loop with its test inverted: if (prevDate === targetDate) break
BacktrackStepInverted(e, prevDate) ==
    IF prevDate = e.targetDate
    THEN SearchReturns([e EXCEPT !.date = prevDate,
                                 !.datePosition = e.position])
    ELSE BacktrackHead([e EXCEPT !.date = prevDate,
                                 !.datePosition = e.position,
                                 !.startPosition = @ - 1])

\* the body of the backtrack loop once the probe at startPosition - 1 resolved
BacktrackStep(e, prevDate) ==
    IF prevDate # e.targetDate
    THEN SearchReturns([e EXCEPT !.date = prevDate,
                                 !.datePosition = e.position])
    ELSE BacktrackHead([e EXCEPT !.date = prevDate,
                                 !.datePosition = e.position,
                                 !.startPosition = @ - 1])

\* matchedLines++ placed before the awaited write
AfterWriteCountsFirst(e, failed) ==
    IF failed
    THEN [e EXCEPT !.pc = "failed", !.error = "write", !.matchedLines = @ + 1]
    ELSE [e EXCEPT !.pc = "scan",
                   !.matchedLines = @ + 1,
                   !.bytesWritten = @ + Len(e.line) + 1,
                   !.scanPos = Min(@ + Len(e.line) + 1, Len(logFile))]

\* the callback of outputStream.write and the statement after the await
AfterWrite(e, failed) ==
    IF failed
    THEN [e EXCEPT !.pc = "failed", !.error = "write"]
    ELSE [e EXCEPT !.pc = "scan",
                   !.matchedLines = @ + 1,
                   !.bytesWritten = @ + Len(e.line) + 1,
                   !.scanPos = Min(@ + Len(e.line) + 1, Len(logFile))]

(***************************************************************************)
(* Steps of an extractLogs call: one action per stretch of code between    *)
(* two awaits.                                                             *)
(***************************************************************************)
\* lines 135-143: the format check, then initializeOutputDir is called
Begin(p) ==
    /\ ex[p].pc = "start"
    /\ ex' = [ex EXCEPT ![p] =
                IF ~ValidDateFormat(ex[p].targetDate)
                THEN [@ EXCEPT !.pc = "rejected", !.error = "Invalid date format"]
                ELSE [@ EXCEPT !.pc = "initdir", !.io = @ \cup {"mkdir"}]]
    /\ UNCHANGED <<logFile, fileSize, outputDirExists, outputs>>

\* lines 123-127 and 144-148: the directory exists, the output stream is
\* created (the file is created empty) and stat is called
OpenOutput(p) ==
    /\ ex[p].pc = "initdir"
    /\ outputDirExists' = TRUE
    /\ outputs' = (OutputPath(ex[p].targetDate) :> <<>>) @@ outputs
    /\ ex' = [ex EXCEPT ![p] = [@ EXCEPT !.pc = "stat", !.io = @ \cup {"open", "stat"}]]
    /\ UNCHANGED <<logFile, fileSize>>

\* lines 149-152 and 89-95: stat resolved, binarySearch starts
StatResolved(p) ==
    /\ ex[p].pc = "stat"
    /\ fileSize' = Len(logFile)
    /\ ex' = [ex EXCEPT ![p] =
                SearchHead([@ EXCEPT !.left = 0, !.right = Len(logFile) - 1,
                                     !.startPosition = -1])]
    /\ UNCHANGED <<logFile, outputDirExists, outputs>>

\* lines 95-106: the probe at mid resolved
ProbeResolved(p) ==
    /\ ex[p].pc = "probe"
    /\ ProbeResolves(logFile, ex[p].position)
    /\ ex' = [ex EXCEPT ![p] =
                SearchHead(Compare(@, @.position,
                                   GetDateAtPosition(logFile, @.position)))]
    /\ UNCHANGED <<logFile, fileSize, outputDirExists, outputs>>

\* lines 110-114: the probe at startPosition - 1 resolved
BacktrackResolved(p) ==
    /\ ex[p].pc = "backtrack"
    /\ ProbeResolves(logFile, ex[p].position)
    /\ ex' = [ex EXCEPT ![p] =
                BacktrackStep(@, GetDateAtPosition(logFile, @.position))]
    /\ UNCHANGED <<logFile, fileSize, outputDirExists, outputs>>

\* lines 172-178 and 187-198: readline yields its next line, or ends
LineRead(p) ==
    /\ ex[p].pc = "scan"
    /\ LET e == ex[p]
           line == ReadLine(logFile, e.scanPos)
       IN  ex' = [ex EXCEPT ![p] =
                IF e.scanPos >= Len(logFile)
                THEN [e EXCEPT !.pc = "done", !.totalLines = fileSize]
                ELSE IF LineDate(line) # e.targetDate
                THEN [e EXCEPT !.pc = "done", !.totalLines = fileSize,
                               !.line = line]
                ELSE [e EXCEPT !.pc = "write", !.io = @ \cup {"write"},
                               !.line = line]]
    /\ UNCHANGED <<logFile, fileSize, outputDirExists, outputs>>

\* lines 179-185: the write of line + '\n' completed, with or without error
WriteCompleted(p) ==
    /\ ex[p].pc = "write"
    /\ \E failed \in BOOLEAN :
        /\ ex' = [ex EXCEPT ![p] = AfterWrite(@, failed)]
        /\ outputs' =
             IF failed THEN outputs
             ELSE [outputs EXCEPT ![OutputPath(ex[p].targetDate)] =
                      WriteAt(@, ex[p].bytesWritten, ex[p].line \o <<NL>>)]
    /\ UNCHANGED <<logFile, fileSize, outputDirExists>>

Calls == DOMAIN ex

Next ==
    \/ \E p \in Calls : Begin(p)
    \/ \E p \in Calls : OpenOutput(p)
    \/ \E p \in Calls : StatResolved(p)
    \/ \E p \in Calls : ProbeResolved(p)
    \/ \E p \in Calls : BacktrackResolved(p)
    \/ \E p \in Calls : LineRead(p)
    \/ \E p \in Calls : WriteCompleted(p)

\* one extractLogs call on a new LogExtractor
Init ==
    /\ logFile \in LogFiles(MaxLines)
    /\ fileSize = 0
    /\ outputDirExists = FALSE
    /\ outputs = <<>>
    /\ \E t \in Targets : ex = <<NewCall(t)>>

Spec == Init /\ [][Next]_vars

\* the same, with every enabled step eventually taken: the event loop runs
\* each callback whose I/O has completed
FairSpec == Init /\ [][Next]_vars /\ WF_vars(Next)

\* the target dates of concurrent calls: the three dates and ""
ConcTargets == { Date(d) : d \in Days } \cup { <<>> }

\* two extractLogs calls for different dates on one LogExtractor, started
\* before either awaits (the calls are interchangeable: the one with the
\* smaller target date is taken as the first)
InitConc ==
    /\ logFile \in LogFiles(MaxLinesConc) \cup {QuotingFile}
    /\ fileSize = 0
    /\ outputDirExists = FALSE
    /\ outputs = <<>>
    /\ \E t1 \in ConcTargets, t2 \in ConcTargets :
        /\ StrLess(t1, t2)
        /\ ex = <<NewCall(t1), NewCall(t2)>>

SpecConc == InitConc /\ [][Next]_vars

(***************************************************************************)
(* Notions of the specification, stated without the operators above.       *)
(***************************************************************************)
\* the YYYY-MM-DD shape: digits, with '-' at positions 4 and 7 (0-based)
WellShaped(t) ==
    /\ Len(t) = DateLen
    /\ \A i \in 1..Len(t) : IF i \in {5, 8} THEN t[i] = 45 ELSE t[i] \in 48..57

\* a two-digit decimal field of a well-shaped date
Field(t, i) == (t[i] - 48) * 10 + (t[i + 1] - 48)

\* not a calendar date in YYYY-MM-DD form
Malformed(t) ==
    \/ ~WellShaped(t)
    \/ Field(t, 6) \notin 1..12
    \/ Field(t, 9) \notin 1..31

\* the index of the first newline of s, Len(s) + 1 when it has none
FirstNL(s) ==
    IF \E i \in 1..Len(s) : s[i] = NL
    THEN CHOOSE i \in 1..Len(s) : s[i] = NL /\ \A j \in 1..(i - 1) : s[j] # NL
    ELSE Len(s) + 1

\* the lines of a text, a final unterminated segment included
RECURSIVE LinesOf(_)
LinesOf(s) ==
    IF s = <<>> THEN <<>>
    ELSE <<SubSeq(s, 1, FirstNL(s) - 1)>> \o LinesOf(SubSeq(s, FirstNL(s) + 1, Len(s)))

\* the 10-byte date prefix of a line
DatePrefix(l) == SubSeq(l, 1, Min(10, Len(l)))

\* a <= b, lexicographically
LexLeq(a, b) ==
    \/ a = b
    \/ \E k \in 1..Min(Len(a), Len(b)) :
           a[k] < b[k] /\ \A i \in 1..(k - 1) : a[i] = b[i]

\* newline-terminated lines, each starting with a date, sorted by date
WellFormed(f) ==
    /\ f # <<>> => f[Len(f)] = NL
    /\ \A i \in 1..Len(LinesOf(f)) : WellShaped(DatePrefix(LinesOf(f)[i]))
    /\ \A i \in 1..(Len(LinesOf(f)) - 1) :
           LexLeq(DatePrefix(LinesOf(f)[i]), DatePrefix(LinesOf(f)[i + 1]))

\* the final line has no trailing newline
Unterminated(f) == f # <<>> /\ f[Len(f)] # NL

\* the lines of f whose date prefix is t, in file order (the linear scan)
RECURSIVE Matching(_, _)
Matching(ls, t) ==
    IF ls = <<>> THEN <<>>
    ELSE (IF DatePrefix(Head(ls)) = t THEN <<Head(ls)>> ELSE <<>>)
             \o Matching(Tail(ls), t)

Present(f, t) == Matching(LinesOf(f), t) # <<>>

\* the 0-based offset at which the line holding offset pos starts
LineStart(f, pos) ==
    CHOOSE o \in 0..pos :
        /\ o = 0 \/ f[o] = NL
        /\ \A q \in (o + 1)..pos : f[q] # NL

\* the 0-based offsets at which a line with date t starts
StartsOf(f, t) ==
    { o \in 0..(Len(f) - 1) :
        /\ o = 0 \/ f[o] = NL
        /\ DatePrefix(SubSeq(f, o + 1, Len(f))) = t }

\* the content of the output file of call p, <<>> when there is none
Output(p) ==
    IF OutputPath(ex[p].targetDate) \in DOMAIN outputs
    THEN outputs[OutputPath(ex[p].targetDate)]
    ELSE <<>>

\* the call returned a summary after a search that found a position
Scanned(p) == ex[p].pc = "done" /\ ex[p].startPosition # -1

(***************************************************************************)
(* C1: on a well-formed file and a target date that occurs in it, a call   *)
(* that returned has written exactly the lines whose date prefix is the    *)
(* target, in file order, and matchedLines is their number.                *)
(***************************************************************************)
C1_ExactLines ==
    \A p \in Calls :
        (/\ ex[p].pc = "done"
         /\ WellFormed(logFile)
         /\ Present(logFile, ex[p].targetDate))
        => /\ LinesOf(Output(p)) = Matching(LinesOf(logFile), ex[p].targetDate)
           /\ ex[p].matchedLines = Len(Matching(LinesOf(logFile), ex[p].targetDate))

(***************************************************************************)
(* C2: on a well-formed file and a well-shaped target date that does not   *)
(* occur in it, binarySearch returns -1, matchedLines is 0 and nothing is  *)
(* written.                                                                *)
(***************************************************************************)
C2_AbsentNotFound ==
    \A p \in Calls :
        (/\ ex[p].pc \in {"scan", "write", "done", "failed"}
         /\ WellFormed(logFile)
         /\ WellShaped(ex[p].targetDate)
         /\ ~Present(logFile, ex[p].targetDate))
        => /\ ex[p].startPosition = -1
           /\ ex[p].matchedLines = 0
           /\ Output(p) = <<>>

(***************************************************************************)
(* C3 as stated: every malformed target date, 2024-13-40 included, is      *)
(* rejected before any file I/O.                                           *)
(***************************************************************************)
C3_MalformedRejected ==
    \A p \in Calls :
        Malformed(ex[p].targetDate)
        => /\ ex[p].pc \in {"start", "rejected"}
           /\ ex[p].io = {}

(***************************************************************************)
(* C3 amended: a target date is rejected, with the invalid-date-format     *)
(* error and before any file I/O, exactly when it fails the shape check    *)
(* (four digits, '-', two digits, '-', two digits).                        *)
(***************************************************************************)
C3_IllShapedRejected ==
    \A p \in Calls :
        /\ ~WellShaped(ex[p].targetDate)
           => /\ ex[p].pc \in {"start", "rejected"}
              /\ ex[p].io = {}
              /\ OutputPath(ex[p].targetDate) \notin DOMAIN outputs
        /\ ex[p].pc = "rejected"
           <=> (ex[p].error = "Invalid date format" /\ ~WellShaped(ex[p].targetDate))
        /\ WellShaped(ex[p].targetDate) => ex[p].pc # "rejected"

\* "20241201" was rejected, with nothing created
C3_Witness ==
    \E p \in Calls :
        /\ ex[p].pc = "rejected"
        /\ Len(ex[p].targetDate) = 8
        /\ ~outputDirExists /\ outputs = <<>> /\ fileSize = 0

\* what holds of a call whose write failed
C4_FailedHolds(p) ==
    ex[p].pc = "failed"
    => /\ ex[p].error = "write"
       /\ ex[p].matchedLines = Len(LinesOf(Output(p)))
       /\ Output(p) \o ex[p].line
            = SubSeq(logFile, ex[p].startPosition + 1,
                     ex[p].startPosition + Len(Output(p)) + Len(ex[p].line))

(***************************************************************************)
(* C4: when the write of a matched line fails, the scan stops there: the   *)
(* call ends with the error and no summary, the output holds the lines     *)
(* written before (one per counted match, the failed line not counted),    *)
(* and from then on neither the call nor its output changes.               *)
(***************************************************************************)
C4_WriteFailureAborts ==
    /\ [](\A p \in Calls : C4_FailedHolds(p))
    /\ [][\A p \in Calls :
            ex[p].pc = "failed" => (ex'[p] = ex[p] /\ outputs' = outputs)]_vars

\* a write failed after at least one line had been written
C4_Witness ==
    \E p \in Calls : ex[p].pc = "failed" /\ ex[p].matchedLines >= 1

(***************************************************************************)
(* C5: on a file whose final line has no trailing newline, every call with *)
(* a well-shaped target date eventually ends, with a summary or an error.  *)
(***************************************************************************)
C5_Terminates ==
    (Unterminated(logFile) /\ \A p \in Calls : WellShaped(ex[p].targetDate))
    => <>(\A p \in Calls : ex[p].pc \in {"done", "failed"})

(***************************************************************************)
(* An extraction run alone, as a function of the file and the target date. *)
(***************************************************************************)
\* the result of a binarySearch that never returns
Hangs == -1 - 1

RECURSIVE AloneBacktrack(_, _, _)
AloneBacktrack(f, t, sp) ==
    IF sp <= 0 THEN sp
    ELSE IF ~ProbeResolves(f, sp - 1) THEN Hangs
    ELSE IF GetDateAtPosition(f, sp - 1) # t THEN sp
    ELSE AloneBacktrack(f, t, sp - 1)

RECURSIVE AloneSearch(_, _, _, _, _)
AloneSearch(f, t, left, right, sp) ==
    IF left > right THEN AloneBacktrack(f, t, sp)
    ELSE IF ~ProbeResolves(f, Mid(left, right)) THEN Hangs
    ELSE IF GetDateAtPosition(f, Mid(left, right)) = t
         THEN AloneSearch(f, t, left, Mid(left, right) - 1, Mid(left, right))
    ELSE IF StrLess(GetDateAtPosition(f, Mid(left, right)), t)
         THEN AloneSearch(f, t, Mid(left, right) + 1, right, sp)
    ELSE AloneSearch(f, t, left, Mid(left, right) - 1, sp)

\* what binarySearch returns when the call runs alone
AloneOffset(f, t) == AloneSearch(f, t, 0, Len(f) - 1, -1)

\* what the scan from pos writes when no write fails
RECURSIVE AloneScan(_, _, _)
AloneScan(f, t, pos) ==
    IF pos >= Len(f) \/ LineDate(ReadLine(f, pos)) # t THEN <<>>
    ELSE ReadLine(f, pos) \o <<NL>>
            \o AloneScan(f, t, Min(pos + Len(ReadLine(f, pos)) + 1, Len(f)))

IsPrefix(a, b) == Len(a) <= Len(b) /\ a = SubSeq(b, 1, Len(a))

(***************************************************************************)
(* C6: with two calls for different dates interleaved on one LogExtractor  *)
(* and one unmodified file, each call's offset, written lines and          *)
(* matchedLines are those of the call run alone: at every moment what it   *)
(* has written is a prefix of what it writes alone, and all of it once it  *)
(* has returned.                                                           *)
(***************************************************************************)
C6_AsAlone ==
    \A p \in Calls :
        LET t      == ex[p].targetDate
            offset == AloneOffset(logFile, t)
            alone  == IF offset < 0 THEN <<>> ELSE AloneScan(logFile, t, offset)
        IN
        /\ ex[p].pc = "rejected" <=> (ex[p].pc # "start" /\ ~WellShaped(t))
        /\ ex[p].pc \in {"scan", "write", "done", "failed"}
              => ex[p].startPosition = offset
        /\ ex[p].pc \in {"stat", "probe", "backtrack", "scan", "write", "done", "failed"}
              => /\ OutputPath(t) \in DOMAIN outputs
                 /\ IsPrefix(Output(p), alone)
                 /\ ex[p].matchedLines = Len(LinesOf(Output(p)))
        /\ ex[p].pc = "done"
              => /\ Output(p) = alone
                 /\ ex[p].totalLines \in {0, Len(logFile)}

\* both calls returned, each having written lines of its own date
C6_Witness ==
    /\ Cardinality(Calls) = 2
    /\ \A p \in Calls : ex[p].pc = "done" /\ ex[p].matchedLines >= 1
    /\ \E p \in Calls, q \in Calls : ex[p].targetDate # ex[q].targetDate
    /\ fileSize = Len(logFile)

(***************************************************************************)
(* C7: on a well-formed file, an offset other than -1 returned by          *)
(* binarySearch is the offset of the first line whose date is the target.  *)
(***************************************************************************)
C7_FirstOccurrence ==
    \A p \in Calls :
        (/\ ex[p].pc \in {"scan", "write", "done", "failed"}
         /\ ex[p].startPosition # -1
         /\ WellFormed(logFile))
        => /\ StartsOf(logFile, ex[p].targetDate) # {}
           /\ \A o \in StartsOf(logFile, ex[p].targetDate) : ex[p].startPosition <= o
           /\ ex[p].startPosition \in StartsOf(logFile, ex[p].targetDate)

(***************************************************************************)
(* C8: on a well-formed file, a probe at any offset, mid-line included,    *)
(* gives the date prefix of the line that holds the offset.                *)
(***************************************************************************)
C8_ProbeGivesLineDate ==
    \A p \in Calls :
        (ex[p].datePosition # -1 /\ WellFormed(logFile))
        => ex[p].date
             = DatePrefix(SubSeq(logFile,
                                 LineStart(logFile, ex[p].datePosition) + 1,
                                 Len(logFile)))

(***************************************************************************)
(* C9: a scan that ran to its end wrote, once each and in file order, the  *)
(* lines of the longest run starting at the found offset whose first 10    *)
(* characters are the target date, none after the first other line, all    *)
(* of them when the file ends first; matchedLines is the number written.   *)
(***************************************************************************)
C9_ScanWritesRun ==
    \A p \in Calls :
        Scanned(p)
        => LET from == LinesOf(SubSeq(logFile, ex[p].startPosition + 1, Len(logFile)))
               out  == LinesOf(Output(p))
           IN  /\ Len(out) <= Len(from)
               /\ \A i \in 1..Len(out) :
                      out[i] = from[i] /\ DatePrefix(out[i]) = ex[p].targetDate
               /\ Len(out) < Len(from)
                      => DatePrefix(from[Len(out) + 1]) # ex[p].targetDate
               /\ Output(p) = Concat([i \in 1..Len(out) |-> out[i] \o <<NL>>])
               /\ ex[p].matchedLines = Len(out)

\* a scan on a well-formed file wrote a line and stopped at a line of another
\* date
C9_Witness ==
    \E p \in Calls :
        /\ Scanned(p)
        /\ WellFormed(logFile)
        /\ ex[p].matchedLines = 1
        /\ ex[p].scanPos < Len(logFile)
        /\ DatePrefix(ex[p].line) # ex[p].targetDate

====
